---- MODULE Spec2Model ----
(***************************************************************************)
(* Model of the BusTub buffer pool (LRU replacer, buffer pool manager      *)
(* instance) and of the extendible hash table that lives on top of it.     *)
(*                                                                         *)
(* A buffer pool instance is a record                                      *)
(*   [pool_size_, num_instances_, instance_index_, next_page_id_,          *)
(*    pages_, page_table_, free_list_, lru_, disk]                         *)
(* and every method of the source is an operator from such a record (and   *)
(* the call's arguments) to the record after the call plus the returned    *)
(* value.  The actions apply one public call to the state variables.       *)
(***************************************************************************)
EXTENDS Integers, Sequences, FiniteSets, TLC

VARIABLES
    pool_size_,       \* BufferPoolManagerInstance::pool_size_
    num_instances_,   \* BufferPoolManagerInstance::num_instances_
    instance_index_,  \* BufferPoolManagerInstance::instance_index_
    next_page_id_,    \* BufferPoolManagerInstance::next_page_id_
    pages_,           \* frame -> [page_id_, pin_count_, is_dirty_, data_]
    page_table_,      \* page id -> frame (a function on the resident ids)
    free_list_,       \* sequence of frames
    lru_,             \* LRUReplacer::lru_, front = next victim
    disk,             \* DiskManager: page id -> bytes last written
    last,             \* the last public call: name, arguments, results
    returned,         \* history: ids handed out by successful NewPage calls
    directory_page_id_, \* ExtendibleHashTable::directory_page_id_
    stored,           \* history: pairs inserted with result true, not removed
    ht_last,          \* the last hash table call: name and result
    ht_fault,         \* "none", or why the hash table's process died
    bpms_,            \* ParallelBufferPoolManager::bpms_: index -> instance
    last_index,       \* ParallelBufferPoolManager::last_index
    par_last,         \* the last call on the parallel pool
    par_returned,     \* history: result of every NewPage on the parallel pool
    thr,              \* thread -> where it is inside a buffer pool call
    lru_ghost         \* replacer called directly: clock, enqueue times, last call

vars == <<pool_size_, num_instances_, instance_index_, next_page_id_, pages_,
          page_table_, free_list_, lru_, disk, last, returned,
          directory_page_id_, stored, ht_last, ht_fault,
          bpms_, last_index, par_last, par_returned, thr,
          lru_ghost>>

parVars == <<bpms_, last_index, par_last, par_returned>>

bpmVars == <<pool_size_, num_instances_, instance_index_, next_page_id_,
             pages_, page_table_, free_list_, lru_, disk>>

(***************************************************************************)
(* Bounds of the model.                                                    *)
(***************************************************************************)
PoolSize == 2          \* frames of the instance under SpecBPM
MaxAlloc == 3          \* page ids one instance may allocate
MaxByte == 1           \* bytes a caller may write are 1..MaxByte

HTPoolSize == 7        \* frames of the pool under the hash table (SpecHT)
MaxHTPages == 7        \* pages the hash table may allocate under SpecHT
MaxKey == 5            \* keys are 0..MaxKey
MaxValue == 1          \* values are 1..MaxValue
MAX_DEPTH == 3         \* directory has 2^MAX_DEPTH slots (scaled down)
BUCKET_ARRAY_SIZE == 1 \* pairs per bucket page (scaled down)

INVALID_PAGE_ID == -1
NullFrame == -1        \* a null Page pointer / "no frame"

(***************************************************************************)
(* Page bytes.  A zeroed page is ZeroData; the caller of the raw buffer    *)
(* pool writes a byte value.                                               *)
(***************************************************************************)
ZeroData == [kind |-> "zero"]
ByteData(b) == [kind |-> "bytes", val |-> b]

Frames(s) == 0 .. (s.pool_size_ - 1)

\* The ids instance i of N may ever allocate within the bound.
PageIds(s) == { s.instance_index_ + s.num_instances_ * k : k \in 0 .. (MaxAlloc - 1) }

Bpi == [pool_size_ |-> pool_size_, num_instances_ |-> num_instances_,
        instance_index_ |-> instance_index_, next_page_id_ |-> next_page_id_,
        pages_ |-> pages_, page_table_ |-> page_table_,
        free_list_ |-> free_list_, lru_ |-> lru_, disk |-> disk]

SetBpi(s) ==
    /\ pool_size_' = s.pool_size_
    /\ num_instances_' = s.num_instances_
    /\ instance_index_' = s.instance_index_
    /\ next_page_id_' = s.next_page_id_
    /\ pages_' = s.pages_
    /\ page_table_' = s.page_table_
    /\ free_list_' = s.free_list_
    /\ lru_' = s.lru_
    /\ disk' = s.disk

(***************************************************************************)
(* Sequence helpers (std::list operations).                                *)
(***************************************************************************)
SeqElems(q) == { q[i] : i \in 1 .. Len(q) }

\* std::list::remove(value): drops every element equal to value.
RECURSIVE ListRemove(_, _)
ListRemove(q, x) ==
    IF q = <<>> THEN <<>>
    ELSE IF Head(q) = x THEN ListRemove(Tail(q), x)
    ELSE <<Head(q)>> \o ListRemove(Tail(q), x)

(***************************************************************************)
(* LRUReplacer                                                             *)
(***************************************************************************)
\* Mutant: the most recently queued frame is taken.
LRUVictim_Back(q) ==
    IF q = <<>> THEN [ok |-> FALSE, frame_id |-> NullFrame, lru |-> q]
    ELSE [ok |-> TRUE, frame_id |-> q[Len(q)], lru |-> SubSeq(q, 1, Len(q) - 1)]

LRUVictim(q) ==
    IF q = <<>> THEN [ok |-> FALSE, frame_id |-> NullFrame, lru |-> q]
    ELSE [ok |-> TRUE, frame_id |-> Head(q), lru |-> Tail(q)]

LRUPin(q, frame_id) == ListRemove(q, frame_id)

LRUUnpin(q, frame_id, lru_limit_) ==
    IF frame_id \in SeqElems(q) THEN q
    ELSE IF Len(q) = lru_limit_ THEN Append(Tail(q), frame_id)
    ELSE Append(q, frame_id)

LRUSize(q) == Len(q)

(***************************************************************************)
(* BufferPoolManagerInstance                                               *)
(***************************************************************************)
EmptyPage == [page_id_ |-> INVALID_PAGE_ID, pin_count_ |-> 0,
              is_dirty_ |-> FALSE, data_ |-> ZeroData]

\* The constructor: every frame empty and on the free list.
NewInstance(pool_size, num_instances, instance_index) ==
    [pool_size_ |-> pool_size, num_instances_ |-> num_instances,
     instance_index_ |-> instance_index, next_page_id_ |-> instance_index,
     pages_ |-> [f \in 0 .. (pool_size - 1) |-> EmptyPage],
     page_table_ |-> <<>>,
     free_list_ |-> [k \in 1 .. pool_size |-> k - 1],
     lru_ |-> <<>>,
     disk |-> [p \in { instance_index + num_instances * k : k \in 0 .. (MaxAlloc - 1) } |-> ZeroData]]

PageTableErase(pt, page_id) == [p \in (DOMAIN pt) \ {page_id} |-> pt[p]]

PageTablePut(pt, page_id, frame_id) ==
    [p \in (DOMAIN pt) \cup {page_id} |-> IF p = page_id THEN frame_id ELSE pt[p]]

DiskWritePage(d, page_id, data) ==
    [p \in (DOMAIN d) \cup {page_id} |-> IF p = page_id THEN data ELSE d[p]]

\* DiskManager::ReadPage: the bytes last written, zeros if never written.
DiskReadPage(d, page_id) == IF page_id \in DOMAIN d THEN d[page_id] ELSE ZeroData

FlushPgImp(s, page_id) ==
    IF page_id \in DOMAIN s.page_table_
    THEN LET frame_id == s.page_table_[page_id]
         IN [s |-> [s EXCEPT !.disk = DiskWritePage(s.disk, page_id, s.pages_[frame_id].data_),
                             !.pages_[frame_id].is_dirty_ = FALSE],
             ret |-> TRUE]
    ELSE [s |-> s, ret |-> FALSE]

RECURSIVE FlushEach(_, _)
FlushEach(s, ids) ==
    IF ids = {} THEN s
    ELSE LET page_id == CHOOSE p \in ids : TRUE
             frame_id == s.page_table_[page_id]
         IN FlushEach([s EXCEPT !.pages_[frame_id].is_dirty_ = FALSE,
                                !.disk = DiskWritePage(s.disk, page_id, s.pages_[frame_id].data_)],
                      ids \ {page_id})

FlushAllPgsImp(s) == [s |-> FlushEach(s, DOMAIN s.page_table_), ret |-> TRUE]

\* Mutant: the allocator strides by one instead of by num_instances_.
AllocatePage_StrideOne(s) ==
    [s |-> [s EXCEPT !.next_page_id_ = s.next_page_id_ + 1],
     page_id |-> s.next_page_id_]

AllocatePage(s) ==
    [s |-> [s EXCEPT !.next_page_id_ = s.next_page_id_ + s.num_instances_],
     page_id |-> s.next_page_id_]

\* Lines 90-97 and 129-137: the free list's front first, else a victim.
\* Returns the frame (NullFrame when neither yields one) and the state.
PickFrame(s) ==
    IF s.free_list_ # <<>>
    THEN [s |-> [s EXCEPT !.free_list_ = Tail(s.free_list_)], frame_id |-> Head(s.free_list_)]
    ELSE LET v == LRUVictim(s.lru_)
         IN [s |-> [s EXCEPT !.lru_ = v.lru], frame_id |-> v.frame_id]

\* Mutant: the old page's page table entry is left behind.
EvictOld_KeepEntry(s, frame_id) ==
    LET page == s.pages_[frame_id]
    IN IF page.page_id_ # INVALID_PAGE_ID /\ page.is_dirty_
       THEN FlushPgImp(s, page.page_id_).s
       ELSE s

\* Lines 99-105 and 139-145: drop the old page of the chosen frame.  The
\* page table entry is erased first, then FlushPgImp is asked to write.
EvictOld(s, frame_id) ==
    LET page == s.pages_[frame_id]
    IN IF page.page_id_ # INVALID_PAGE_ID
       THEN LET s1 == [s EXCEPT !.page_table_ = PageTableErase(s.page_table_, page.page_id_)]
            IN IF page.is_dirty_ THEN FlushPgImp(s1, page.page_id_).s ELSE s1
       ELSE s

\* Mutant: "&&" for "||" in the scan for an unpinned frame.
AllPagesPinned_And(s) ==
    \A i \in Frames(s) :
        ~(s.pages_[i].page_id_ = INVALID_PAGE_ID /\ s.pages_[i].pin_count_ = 0)

AllPagesPinned(s) ==
    \A i \in Frames(s) :
        ~(s.pages_[i].page_id_ = INVALID_PAGE_ID \/ s.pages_[i].pin_count_ = 0)

NewPgImp(s) ==
    IF AllPagesPinned(s) THEN [s |-> s, ret |-> NullFrame, page_id |-> INVALID_PAGE_ID, set |-> FALSE]
    ELSE
    LET pick == PickFrame(s) IN
    IF pick.frame_id = NullFrame
    THEN [s |-> pick.s, ret |-> NullFrame, page_id |-> INVALID_PAGE_ID, set |-> FALSE]
    ELSE
    LET frame_id == pick.frame_id
        s1 == EvictOld(pick.s, frame_id)
        a  == AllocatePage(s1)
        s2 == [a.s EXCEPT !.pages_[frame_id] =
                   [page_id_ |-> a.page_id, is_dirty_ |-> FALSE,
                    pin_count_ |-> 1, data_ |-> ZeroData]]
        s3 == [s2 EXCEPT !.lru_ = LRUPin(s2.lru_, frame_id),
                         !.page_table_ = PageTablePut(s2.page_table_, a.page_id, frame_id)]
    IN [s |-> s3, ret |-> frame_id, page_id |-> a.page_id, set |-> TRUE]

FetchPgImp(s, page_id) ==
    IF page_id \in DOMAIN s.page_table_
    THEN [s |-> s, ret |-> s.page_table_[page_id]]
    ELSE
    LET pick == PickFrame(s) IN
    IF pick.frame_id = NullFrame
    THEN [s |-> pick.s, ret |-> NullFrame]
    ELSE
    LET frame_id == pick.frame_id
        s1 == EvictOld(pick.s, frame_id)
        s2 == [s1 EXCEPT !.pages_[frame_id] =
                   [page_id_ |-> page_id, is_dirty_ |-> FALSE,
                    pin_count_ |-> 1, data_ |-> DiskReadPage(s1.disk, page_id)]]
        s3 == [s2 EXCEPT !.lru_ = LRUPin(s2.lru_, frame_id),
                         !.page_table_ = PageTablePut(s2.page_table_, page_id, frame_id)]
    IN [s |-> s3, ret |-> frame_id]

\* Mutant: the pin count is not consulted.
DeletePgImp_NoPinCheck(s, page_id) ==
    IF page_id \notin DOMAIN s.page_table_ THEN [s |-> s, ret |-> TRUE]
    ELSE
    LET frame_id == s.page_table_[page_id] IN
    [s |-> [s EXCEPT !.pages_[frame_id] = EmptyPage,
                     !.page_table_ = PageTableErase(s.page_table_, page_id),
                     !.free_list_ = Append(s.free_list_, frame_id)],
     ret |-> TRUE]

DeletePgImp(s, page_id) ==
    IF page_id \notin DOMAIN s.page_table_ THEN [s |-> s, ret |-> TRUE]
    ELSE
    LET frame_id == s.page_table_[page_id] IN
    IF s.pages_[frame_id].pin_count_ # 0 THEN [s |-> s, ret |-> FALSE]
    ELSE [s |-> [s EXCEPT !.pages_[frame_id] = EmptyPage,
                          !.page_table_ = PageTableErase(s.page_table_, page_id),
                          !.free_list_ = Append(s.free_list_, frame_id)],
          ret |-> TRUE]

\* Mutant: the replacer holds one frame fewer than the pool.
UnpinPgImp_SmallReplacer(s, page_id, is_dirty) ==
    IF page_id \notin DOMAIN s.page_table_ THEN [s |-> s, ret |-> FALSE]
    ELSE
    LET frame_id == s.page_table_[page_id] IN
    IF s.pages_[frame_id].pin_count_ = 0 THEN [s |-> s, ret |-> FALSE]
    ELSE
    LET s1 == [s EXCEPT !.pages_[frame_id].pin_count_ = @ - 1,
                        !.pages_[frame_id].is_dirty_ = is_dirty]
    IN [s |-> IF s1.pages_[frame_id].pin_count_ = 0
              THEN [s1 EXCEPT !.lru_ = LRUUnpin(s1.lru_, frame_id, s1.pool_size_ - 1)]
              ELSE s1,
        ret |-> TRUE]

UnpinPgImp(s, page_id, is_dirty) ==
    IF page_id \notin DOMAIN s.page_table_ THEN [s |-> s, ret |-> FALSE]
    ELSE
    LET frame_id == s.page_table_[page_id] IN
    IF s.pages_[frame_id].pin_count_ = 0 THEN [s |-> s, ret |-> FALSE]
    ELSE
    LET s1 == [s EXCEPT !.pages_[frame_id].pin_count_ = @ - 1,
                        !.pages_[frame_id].is_dirty_ = is_dirty]
    IN [s |-> IF s1.pages_[frame_id].pin_count_ = 0
              THEN [s1 EXCEPT !.lru_ = LRUUnpin(s1.lru_, frame_id, s1.pool_size_)]
              ELSE s1,
        ret |-> TRUE]

(***************************************************************************)
(* The public calls on one buffer pool instance, as actions.               *)
(***************************************************************************)
NoHTCall == [op |-> "none", ret |-> TRUE]

NoCall == [op |-> "none", page_id |-> INVALID_PAGE_ID, is_dirty |-> FALSE,
           ret |-> TRUE, frame |-> NullFrame]

htIdle == /\ directory_page_id_' = directory_page_id_
          /\ stored' = stored
          /\ ht_last' = ht_last
          /\ ht_fault' = ht_fault
          /\ UNCHANGED parVars
          /\ thr' = thr
          /\ lru_ghost' = lru_ghost

\* The replacer has not been called directly.
LRUGhost0 == [clock |-> 0, enq |-> <<>>, op |-> "none", frame |-> NullFrame, ok |-> TRUE]

NoParCall == [op |-> "none", page_id |-> INVALID_PAGE_ID, ret |-> TRUE,
              instance |-> -1, probes |-> <<>>]

\* No parallel pool has been constructed and no thread is inside a call.
parNone ==
    /\ bpms_ = <<>>
    /\ last_index = 0
    /\ par_last = NoParCall
    /\ par_returned = <<>>
    /\ thr = <<>>
    /\ lru_ghost = LRUGhost0

InitBPM ==
    /\ \E cfg \in { <<1, 0>>, <<2, 1>> } :
          LET s == NewInstance(PoolSize, cfg[1], cfg[2]) IN
          /\ pool_size_ = s.pool_size_
          /\ num_instances_ = s.num_instances_
          /\ instance_index_ = s.instance_index_
          /\ next_page_id_ = s.next_page_id_
          /\ pages_ = s.pages_
          /\ page_table_ = s.page_table_
          /\ free_list_ = s.free_list_
          /\ lru_ = s.lru_
          /\ disk = s.disk
    /\ last = NoCall
    /\ returned = <<>>
    /\ directory_page_id_ = INVALID_PAGE_ID
    /\ stored = {}
    /\ ht_last = NoHTCall
    /\ ht_fault = "none"
    /\ parNone

NewPage ==
    /\ next_page_id_ < instance_index_ + num_instances_ * MaxAlloc
    /\ LET r == NewPgImp(Bpi) IN
       /\ SetBpi(r.s)
       /\ last' = [op |-> "NewPage", page_id |-> r.page_id, is_dirty |-> FALSE,
                   ret |-> (r.ret # NullFrame), frame |-> r.ret]
       /\ returned' = IF r.ret # NullFrame THEN Append(returned, r.page_id) ELSE returned
    /\ htIdle

FetchPage(page_id) ==
    /\ LET r == FetchPgImp(Bpi, page_id) IN
       /\ SetBpi(r.s)
       /\ last' = [op |-> "FetchPage", page_id |-> page_id, is_dirty |-> FALSE,
                   ret |-> (r.ret # NullFrame), frame |-> r.ret]
    /\ returned' = returned
    /\ htIdle

UnpinPage(page_id, is_dirty) ==
    /\ LET r == UnpinPgImp(Bpi, page_id, is_dirty) IN
       /\ SetBpi(r.s)
       /\ last' = [op |-> "UnpinPage", page_id |-> page_id, is_dirty |-> is_dirty,
                   ret |-> r.ret, frame |-> NullFrame]
    /\ returned' = returned
    /\ htIdle

FlushPage(page_id) ==
    /\ LET r == FlushPgImp(Bpi, page_id) IN
       /\ SetBpi(r.s)
       /\ last' = [op |-> "FlushPage", page_id |-> page_id, is_dirty |-> FALSE,
                   ret |-> r.ret, frame |-> NullFrame]
    /\ returned' = returned
    /\ htIdle

FlushAllPages ==
    /\ LET r == FlushAllPgsImp(Bpi) IN
       /\ SetBpi(r.s)
       /\ last' = [op |-> "FlushAllPages", page_id |-> INVALID_PAGE_ID, is_dirty |-> FALSE,
                   ret |-> TRUE, frame |-> NullFrame]
    /\ returned' = returned
    /\ htIdle

DeletePage(page_id) ==
    /\ LET r == DeletePgImp(Bpi, page_id) IN
       /\ SetBpi(r.s)
       /\ last' = [op |-> "DeletePage", page_id |-> page_id, is_dirty |-> FALSE,
                   ret |-> r.ret, frame |-> NullFrame]
    /\ returned' = returned
    /\ htIdle

\* The holder of a pin writes bytes into the frame (Page::GetData()).
WriteData(frame_id, b) ==
    /\ pages_[frame_id].page_id_ # INVALID_PAGE_ID
    /\ pages_[frame_id].pin_count_ > 0
    /\ pages_' = [pages_ EXCEPT ![frame_id].data_ = ByteData(b)]
    /\ last' = [op |-> "WriteData", page_id |-> pages_[frame_id].page_id_, is_dirty |-> FALSE,
                ret |-> TRUE, frame |-> frame_id]
    /\ UNCHANGED <<pool_size_, num_instances_, instance_index_, next_page_id_,
                   page_table_, free_list_, lru_, disk, returned>>
    /\ htIdle

\* Callers pass ids that NewPage has handed out.
AllocatedIds == { p \in PageIds(Bpi) : p < next_page_id_ }

NextBPM ==
    \/ NewPage
    \/ \E p \in AllocatedIds : FetchPage(p)
    \/ \E p \in AllocatedIds, d \in BOOLEAN : UnpinPage(p, d)
    \/ \E p \in AllocatedIds : FlushPage(p)
    \/ FlushAllPages
    \/ \E p \in AllocatedIds : DeletePage(p)
    \/ \E f \in Frames(Bpi), b \in 1 .. MaxByte : WriteData(f, b)

SpecBPM == InitBPM /\ [][NextBPM]_vars

(***************************************************************************)
(* Properties of the buffer pool instance (checked under SpecBPM).         *)
(***************************************************************************)
FrameSet == Frames(Bpi)

\* The frame the last NewPage/FetchPage took over from another page.
Reused(f) ==
    /\ last'.op \in {"NewPage", "FetchPage"}
    /\ last'.frame = f
    /\ pages_[f].page_id_ # INVALID_PAGE_ID
    /\ pages_'[f].page_id_ # pages_[f].page_id_

\* C1: whenever NewPage or FetchPage reuses a victim frame that holds a
\* valid dirty page, the disk holds that frame's bytes under the old page
\* id once the frame has been overwritten (so a later fetch reads them).
C1_WriteBackOnEviction ==
    [][\A f \in FrameSet :
          (Reused(f) /\ pages_[f].is_dirty_)
              => DiskReadPage(disk', pages_[f].page_id_) = pages_[f].data_]_vars

\* C2: the frame FetchPage returns has pin_count >= 1 and is not in the
\* replacer queue.
C2_FetchPins ==
    (last.op = "FetchPage" /\ last.ret)
        => /\ pages_[last.frame].pin_count_ >= 1
           /\ last.frame \notin SeqElems(lru_)

\* C4: NewPage fails exactly when every frame holds a valid pinned page; a
\* failed call changes nothing and consumes no id; a successful call
\* returns the next id in a zeroed frame with pin_count 1, not dirty.
C4_NewPageExhaustion ==
    [][last'.op = "NewPage" =>
          LET everyPinned == \A f \in FrameSet :
                                 /\ pages_[f].page_id_ # INVALID_PAGE_ID
                                 /\ pages_[f].pin_count_ > 0
          IN /\ (~last'.ret) <=> everyPinned
             /\ (~last'.ret) => (UNCHANGED bpmVars /\ returned' = returned)
             /\ last'.ret =>
                   /\ last'.page_id = next_page_id_
                   /\ last'.frame \in FrameSet
                   /\ pages_'[last'.frame] =
                         [page_id_ |-> next_page_id_, pin_count_ |-> 1,
                          is_dirty_ |-> FALSE, data_ |-> ZeroData]
                   /\ returned' = Append(returned, next_page_id_)]_vars

\* C4 witness: a NewPage call has just failed on a pool whose frames are
\* all pinned.
C4_Witness ==
    /\ last.op = "NewPage"
    /\ ~last.ret
    /\ \A f \in FrameSet : pages_[f].page_id_ # INVALID_PAGE_ID /\ pages_[f].pin_count_ > 0

Pinned == { f \in FrameSet : pages_[f].pin_count_ > 0 }

\* C5: each frame is in exactly one of free list, replacer queue, pinned,
\* and the three sizes add up to the pool size.
C5_FrameAccounting ==
    /\ \A f \in FrameSet :
          /\ (f \in SeqElems(free_list_)) \/ (f \in SeqElems(lru_)) \/ (f \in Pinned)
          /\ ~((f \in SeqElems(free_list_)) /\ (f \in SeqElems(lru_)))
          /\ ~((f \in SeqElems(free_list_)) /\ (f \in Pinned))
          /\ ~((f \in SeqElems(lru_)) /\ (f \in Pinned))
    /\ Len(free_list_) + Len(lru_) + Cardinality(Pinned) = pool_size_

\* C6: no two frames hold the same valid page id, and the page table is
\* exactly the inverse of frame -> page id on the resident frames.
C6_UniqueResidency ==
    /\ \A f, g \in FrameSet :
          (pages_[f].page_id_ # INVALID_PAGE_ID /\ pages_[f].page_id_ = pages_[g].page_id_)
              => f = g
    /\ DOMAIN page_table_ =
          { pages_[f].page_id_ : f \in { g \in FrameSet : pages_[g].page_id_ # INVALID_PAGE_ID } }
    /\ \A p \in DOMAIN page_table_ :
          page_table_[p] \in FrameSet /\ pages_[page_table_[p]].page_id_ = p

\* C6 witness: a page has been faulted in over an evicted one: the last
\* FetchPage filled a frame, the table is full and some allocated id is
\* not resident.
C6_Witness ==
    /\ last.op = "FetchPage"
    /\ last.ret
    /\ pages_[last.frame].pin_count_ = 1
    /\ Cardinality(DOMAIN page_table_) = pool_size_
    /\ Len(returned) > pool_size_

\* C7: a frame's dirty flag goes from true to false only through FlushPage,
\* FlushAllPages, DeletePage, or an eviction that writes the bytes back;
\* never through UnpinPage.
C7_DirtyClearedOnlyBy ==
    [][\A f \in FrameSet :
          (pages_[f].is_dirty_ /\ ~pages_'[f].is_dirty_)
              => \/ last'.op \in {"FlushPage", "FlushAllPages", "DeletePage"}
                 \/ /\ Reused(f)
                    /\ DiskReadPage(disk', pages_[f].page_id_) = pages_[f].data_]_vars

\* C8: DeletePage returns false iff the page is resident and pinned, and
\* then nothing changes; a non-resident page gives true with no change; a
\* resident unpinned page gives true, leaves the page table and its frame
\* is empty on the free list.
C8_DeleteOutcomes ==
    [][last'.op = "DeletePage" =>
          LET p == last'.page_id
              resident == p \in DOMAIN page_table_
              f == page_table_[p]
          IN /\ (~last'.ret) <=> (resident /\ pages_[f].pin_count_ > 0)
             /\ (~last'.ret) => UNCHANGED bpmVars
             /\ (~resident) => UNCHANGED bpmVars
             /\ (resident /\ pages_[f].pin_count_ = 0) =>
                   /\ last'.ret
                   /\ p \notin DOMAIN page_table_'
                   /\ pages_'[f] = EmptyPage
                   /\ f \in SeqElems(free_list_')]_vars

\* C8 witness: DeletePage has just refused a resident pinned page.
C8_Witness ==
    /\ last.op = "DeletePage"
    /\ ~last.ret
    /\ last.page_id \in DOMAIN page_table_
    /\ pages_[page_table_[last.page_id]].pin_count_ > 0

\* C9: the ids returned by the successful NewPage calls of instance i of N
\* are i, i+N, i+2N, ... in that order.
C9_AllocatorSequence ==
    \A j \in 1 .. Len(returned) :
        returned[j] = instance_index_ + (j - 1) * num_instances_

\* C9 witness: instance 1 of 2 has handed out three ids, the last one after
\* a frame had to be reused.
C9_Witness ==
    /\ num_instances_ = 2
    /\ Len(returned) >= 3
    /\ last.op = "NewPage"
    /\ last.ret

(***************************************************************************)
(* ParallelBufferPoolManager: bpms_ maps 0..N-1 to instance records, each  *)
(* built as instance i of N.  The instances share one DiskManager; an      *)
(* instance's disk field holds the shared disk's pages of that instance's  *)
(* own residue class, the only ones it is ever asked to read or write.     *)
(***************************************************************************)
NumInstances == 4      \* instances of the parallel pool under SpecPar
ParPoolSize == 1       \* frames of each instance under SpecPar
MaxParCalls == 5       \* NewPage calls on the parallel pool under SpecPar

\* The constructor (lines 18-24).
ParConstruct(num_instances, pool_size) ==
    [i \in 0 .. (num_instances - 1) |-> NewInstance(pool_size, num_instances, i)]

\* bpms_.size()
BpmsSize(b) == Cardinality(DOMAIN b)

\* Mutant: every page id is sent to instance 0.
GetBufferPoolManager_Zero(b, page_id) == 0

\* GetBufferPoolManager (lines 38-41): the index of the responsible instance.
GetBufferPoolManager(b, page_id) == page_id % BpmsSize(b)

\* Mutant: the index moves on by two.
NextIndex_Skip(i, n) == (i + 2) % n

\* (i + 1) % bpms_.size(), lines 69, 72 and 77.
NextIndex(i, n) == (i + 1) % n

RECURSIVE ParProbe(_, _, _, _)

\* Lines 68-75 for the instance just probed: r is its NewPage's outcome.
ParProbed(b, start_index, li, probes, i, r) ==
    IF r.ret # NullFrame
    THEN [bpms |-> [b EXCEPT ![i] = r.s], last_index |-> NextIndex(li, BpmsSize(b)),
          ret |-> r.ret, page_id |-> r.page_id, instance |-> i,
          probes |-> Append(probes, i)]
    ELSE IF NextIndex(start_index, BpmsSize(b)) = li
    THEN [bpms |-> [b EXCEPT ![i] = r.s], last_index |-> NextIndex(li, BpmsSize(b)),
          ret |-> NullFrame, page_id |-> INVALID_PAGE_ID, instance |-> -1,
          probes |-> Append(probes, i)]
    ELSE ParProbe([b EXCEPT ![i] = r.s], NextIndex(start_index, BpmsSize(b)), li,
                  Append(probes, i))

\* One turn of the while loop (lines 66-76).
ParProbe(b, start_index, li, probes) ==
    ParProbed(b, start_index, li, probes, start_index % BpmsSize(b),
              NewPgImp(b[start_index % BpmsSize(b)]))

\* ParallelBufferPoolManager::NewPgImp (lines 58-80)
ParNewPgImp(b, li) == ParProbe(b, li, li, <<>>)

\* Lines 43-56 and 82-85: the call goes to the responsible instance.
ParFetchPgImp(b, page_id) ==
    [bpms |-> [b EXCEPT ![GetBufferPoolManager(b, page_id)] = FetchPgImp(@, page_id).s],
     ret |-> FetchPgImp(b[GetBufferPoolManager(b, page_id)], page_id).ret # NullFrame]

ParUnpinPgImp(b, page_id, is_dirty) ==
    [bpms |-> [b EXCEPT ![GetBufferPoolManager(b, page_id)] = UnpinPgImp(@, page_id, is_dirty).s],
     ret |-> UnpinPgImp(b[GetBufferPoolManager(b, page_id)], page_id, is_dirty).ret]

ParFlushPgImp(b, page_id) ==
    [bpms |-> [b EXCEPT ![GetBufferPoolManager(b, page_id)] = FlushPgImp(@, page_id).s],
     ret |-> FlushPgImp(b[GetBufferPoolManager(b, page_id)], page_id).ret]

ParDeletePgImp(b, page_id) ==
    [bpms |-> [b EXCEPT ![GetBufferPoolManager(b, page_id)] = DeletePgImp(@, page_id).s],
     ret |-> DeletePgImp(b[GetBufferPoolManager(b, page_id)], page_id).ret]

\* Lines 87-92
ParFlushAllPgsImp(b) == [i \in DOMAIN b |-> FlushAllPgsImp(b[i]).s]

\* The single instance and the hash table are not in use under SpecPar.
bpmNone ==
    /\ pool_size_ = 0
    /\ num_instances_ = 0
    /\ instance_index_ = 0
    /\ next_page_id_ = 0
    /\ pages_ = <<>>
    /\ page_table_ = <<>>
    /\ free_list_ = <<>>
    /\ lru_ = <<>>
    /\ disk = <<>>
    /\ last = NoCall
    /\ returned = <<>>
    /\ directory_page_id_ = INVALID_PAGE_ID
    /\ stored = {}
    /\ ht_last = NoHTCall
    /\ ht_fault = "none"
    /\ thr = <<>>
    /\ lru_ghost = LRUGhost0

parOnly == UNCHANGED <<bpmVars, last, returned, directory_page_id_, stored,
                       ht_last, ht_fault, thr, lru_ghost>>

InitPar ==
    /\ bpms_ = ParConstruct(NumInstances, ParPoolSize)
    /\ last_index = 0
    /\ par_last = NoParCall
    /\ par_returned = <<>>
    /\ bpmNone

ParNewPage ==
    /\ Len(par_returned) < MaxParCalls
    /\ LET r == ParNewPgImp(bpms_, last_index) IN
       /\ bpms_' = r.bpms
       /\ last_index' = r.last_index
       /\ par_last' = [op |-> "NewPage", page_id |-> r.page_id, ret |-> (r.ret # NullFrame),
                       instance |-> r.instance, probes |-> r.probes]
       /\ par_returned' = Append(par_returned, r.page_id)
    /\ parOnly

ParCall(name, page_id, r) ==
    /\ bpms_' = r.bpms
    /\ par_last' = [op |-> name, page_id |-> page_id, ret |-> r.ret,
                    instance |-> GetBufferPoolManager(bpms_, page_id), probes |-> <<>>]
    /\ UNCHANGED <<last_index, par_returned>>
    /\ parOnly

ParFetchPage(page_id) == ParCall("FetchPage", page_id, ParFetchPgImp(bpms_, page_id))

ParUnpinPage(page_id, is_dirty) ==
    ParCall("UnpinPage", page_id, ParUnpinPgImp(bpms_, page_id, is_dirty))

ParFlushPage(page_id) == ParCall("FlushPage", page_id, ParFlushPgImp(bpms_, page_id))

ParDeletePage(page_id) == ParCall("DeletePage", page_id, ParDeletePgImp(bpms_, page_id))

ParFlushAllPages ==
    /\ bpms_' = ParFlushAllPgsImp(bpms_)
    /\ par_last' = [op |-> "FlushAllPages", page_id |-> INVALID_PAGE_ID, ret |-> TRUE,
                    instance |-> -1, probes |-> <<>>]
    /\ UNCHANGED <<last_index, par_returned>>
    /\ parOnly

\* Callers pass ids that NewPage has handed out.
ParAllocatedIds == { p \in SeqElems(par_returned) : p # INVALID_PAGE_ID }

NextPar ==
    \/ ParNewPage
    \/ \E p \in ParAllocatedIds : ParFetchPage(p)
    \/ \E p \in ParAllocatedIds, d \in BOOLEAN : ParUnpinPage(p, d)
    \/ \E p \in ParAllocatedIds : ParFlushPage(p)
    \/ \E p \in ParAllocatedIds : ParDeletePage(p)
    \/ ParFlushAllPages

SpecPar == InitPar /\ [][NextPar]_vars

(***************************************************************************)
(* Properties of the parallel pool (checked under SpecPar).                *)
(***************************************************************************)
InstanceSet == DOMAIN bpms_

\* The instances a NewPage call starting at li probes, in order: li, li+1,
\* ... up to and including the first whose NewPage succeeds.
RECURSIVE ExpectedProbes(_, _, _)
ExpectedProbes(b, li, k) ==
    IF k = BpmsSize(b) THEN <<>>
    ELSE IF NewPgImp(b[(li + k) % BpmsSize(b)]).ret # NullFrame
    THEN <<(li + k) % BpmsSize(b)>>
    ELSE <<(li + k) % BpmsSize(b)>> \o ExpectedProbes(b, li, k + 1)

ResidentIds(s) ==
    (DOMAIN s.page_table_)
        \cup { s.pages_[f].page_id_ : f \in { g \in Frames(s) : s.pages_[g].page_id_ # INVALID_PAGE_ID } }

\* C14: every page id resident in instance i is congruent to i mod N; a
\* page NewPage returns comes from instance p mod N; and a FetchPage,
\* UnpinPage, FlushPage or DeletePage of p is carried out by instance
\* p mod N and leaves every other instance as it was.
C14_ShardRouting ==
    [][LET n == BpmsSize(bpms_)
           p == par_last'.page_id
       IN /\ \A i \in InstanceSet : \A q \in ResidentIds(bpms_'[i]) : q % n = i
          /\ (par_last'.op = "NewPage" /\ par_last'.ret) => par_last'.instance = p % n
          /\ par_last'.op \in {"FetchPage", "UnpinPage", "FlushPage", "DeletePage"} =>
                /\ par_last'.instance = p % n
                /\ \A j \in InstanceSet \ {p % n} : bpms_'[j] = bpms_[j]
                /\ par_last'.op = "FetchPage" =>
                       bpms_'[p % n] = FetchPgImp(bpms_[p % n], p).s
                /\ par_last'.op = "FlushPage" =>
                       bpms_'[p % n] = FlushPgImp(bpms_[p % n], p).s
                /\ par_last'.op = "DeletePage" =>
                       bpms_'[p % n] = DeletePgImp(bpms_[p % n], p).s
                /\ par_last'.op = "UnpinPage" =>
                       \E d \in BOOLEAN : bpms_'[p % n] = UnpinPgImp(bpms_[p % n], p, d).s]_vars

\* C14 witness: FetchPage has just brought a page back into instance 1,
\* which has allocated two pages and has one frame.
C14_Witness ==
    /\ par_last.op = "FetchPage"
    /\ par_last.ret
    /\ par_last.instance = 1
    /\ par_last.page_id = 1
    /\ bpms_[1].next_page_id_ > 1 + NumInstances
    /\ bpms_[1].pages_[0].page_id_ = 1
    /\ bpms_[1].pages_[0].pin_count_ = 1

(***************************************************************************)
(* Two threads calling one buffer pool instance.  The methods of           *)
(* BufferPoolManagerInstance take no lock (only the replacer's own methods *)
(* hold its mutex), so a call is a sequence of steps that another thread's *)
(* steps may come between.  NewPage and FetchPage are split where they     *)
(* read or write the shared members; UnpinPage, FlushPage and DeletePage   *)
(* are kept whole.                                                         *)
(***************************************************************************)
NumThreads == 2        \* threads calling the instance under SpecConc
ConcPoolSize == 1      \* frames of the instance under SpecConc
ConcMaxAlloc == 2      \* NewPage calls entered while next_page_id_ is below this
Threads == 1 .. NumThreads

ThreadIdle == [pc |-> "idle", op |-> "none", page_id |-> INVALID_PAGE_ID,
               frame_id |-> NullFrame]

InitConc ==
    /\ LET s == NewInstance(ConcPoolSize, 1, 0) IN
          /\ pool_size_ = s.pool_size_
          /\ num_instances_ = s.num_instances_
          /\ instance_index_ = s.instance_index_
          /\ next_page_id_ = s.next_page_id_
          /\ pages_ = s.pages_
          /\ page_table_ = s.page_table_
          /\ free_list_ = s.free_list_
          /\ lru_ = s.lru_
          /\ disk = s.disk
    /\ last = NoCall
    /\ returned = <<>>
    /\ directory_page_id_ = INVALID_PAGE_ID
    /\ stored = {}
    /\ ht_last = NoHTCall
    /\ ht_fault = "none"
    /\ bpms_ = <<>>
    /\ last_index = 0
    /\ par_last = NoParCall
    /\ par_returned = <<>>
    /\ thr = [t \in Threads |-> ThreadIdle]
    /\ lru_ghost = LRUGhost0

concIdle == UNCHANGED <<last, directory_page_id_, stored, ht_last, ht_fault, parVars,
                        lru_ghost>>

\* A thread enters NewPgImp (line 73).
ThrCallNewPage(t) ==
    /\ thr[t].pc = "idle"
    /\ next_page_id_ < ConcMaxAlloc
    /\ thr' = [thr EXCEPT ![t] = [ThreadIdle EXCEPT !.pc = "scan", !.op = "NewPage"]]
    /\ UNCHANGED <<bpmVars, returned>>
    /\ concIdle

\* A thread enters FetchPgImp (line 118).
ThrCallFetchPage(t, page_id) ==
    /\ thr[t].pc = "idle"
    /\ thr' = [thr EXCEPT ![t] = [ThreadIdle EXCEPT !.pc = "lookup", !.op = "FetchPage",
                                                    !.page_id = page_id]]
    /\ UNCHANGED <<bpmVars, returned>>
    /\ concIdle

\* NewPgImp lines 79-87: the scan for a frame that is not pinned.
ThrScan(t) ==
    /\ thr[t].pc = "scan"
    /\ thr' = [thr EXCEPT ![t] = IF AllPagesPinned(Bpi) THEN ThreadIdle
                                 ELSE [@ EXCEPT !.pc = "pick"]]
    /\ UNCHANGED <<bpmVars, returned>>
    /\ concIdle

\* FetchPgImp lines 126-127: the page table lookup.
ThrLookup(t) ==
    /\ thr[t].pc = "lookup"
    /\ thr' = [thr EXCEPT ![t] = IF thr[t].page_id \in DOMAIN page_table_ THEN ThreadIdle
                                 ELSE [@ EXCEPT !.pc = "pick"]]
    /\ UNCHANGED <<bpmVars, returned>>
    /\ concIdle

\* Lines 90-91, 95 and 130-131, 135: free_list_.front(), or Victim under
\* the replacer's mutex.
ThrPick(t) ==
    /\ thr[t].pc = "pick"
    /\ IF free_list_ # <<>>
       THEN /\ thr' = [thr EXCEPT ![t].pc = "pop", ![t].frame_id = Head(free_list_)]
            /\ lru_' = lru_
       ELSE /\ thr' = [thr EXCEPT ![t] = IF LRUVictim(lru_).ok
                                         THEN [@ EXCEPT !.pc = "evict",
                                                        !.frame_id = LRUVictim(lru_).frame_id]
                                         ELSE ThreadIdle]
            /\ lru_' = LRUVictim(lru_).lru
    /\ UNCHANGED <<pool_size_, num_instances_, instance_index_, next_page_id_, pages_,
                   page_table_, free_list_, disk, returned>>
    /\ concIdle

\* Lines 92 and 132: free_list_.pop_front().  On a list another thread has
\* emptied meanwhile the call is undefined: the list stays empty or the
\* process dies.
ThrPop(t, outcome) ==
    /\ thr[t].pc = "pop"
    /\ IF free_list_ # <<>>
       THEN /\ outcome = "pop"
            /\ free_list_' = Tail(free_list_)
            /\ thr' = [thr EXCEPT ![t].pc = "evict"]
       ELSE /\ outcome \in {"nothing", "crash"}
            /\ free_list_' = free_list_
            /\ thr' = IF outcome = "crash"
                      THEN [u \in Threads |-> [thr[u] EXCEPT !.pc = "crashed"]]
                      ELSE [thr EXCEPT ![t].pc = "evict"]
    /\ UNCHANGED <<pool_size_, num_instances_, instance_index_, next_page_id_, pages_,
                   page_table_, lru_, disk, returned>>
    /\ concIdle

\* Lines 99-105 and 139-145: the old page of the frame is dropped.
ThrEvict(t) ==
    /\ thr[t].pc = "evict"
    /\ SetBpi(EvictOld(Bpi, thr[t].frame_id))
    /\ thr' = [thr EXCEPT ![t].pc = IF thr[t].op = "NewPage" THEN "alloc" ELSE "install"]
    /\ returned' = returned
    /\ concIdle

\* AllocatePage line 203: next_page_id_ is read.
ThrAllocRead(t) ==
    /\ thr[t].pc = "alloc"
    /\ thr' = [thr EXCEPT ![t].pc = "bump", ![t].page_id = next_page_id_]
    /\ UNCHANGED <<bpmVars, returned>>
    /\ concIdle

\* AllocatePage line 204: next_page_id_ += num_instances_.
ThrAllocBump(t) ==
    /\ thr[t].pc = "bump"
    /\ next_page_id_' = next_page_id_ + num_instances_
    /\ thr' = [thr EXCEPT ![t].pc = "install"]
    /\ UNCHANGED <<pool_size_, num_instances_, instance_index_, pages_, page_table_,
                   free_list_, lru_, disk, returned>>
    /\ concIdle

\* Lines 106-115 and 147-156: the frame gets its new page and is returned.
ThrInstall(t) ==
    /\ thr[t].pc = "install"
    /\ pages_' = [pages_ EXCEPT ![thr[t].frame_id] =
                     [page_id_ |-> thr[t].page_id, is_dirty_ |-> FALSE, pin_count_ |-> 1,
                      data_ |-> IF thr[t].op = "NewPage" THEN ZeroData
                                ELSE DiskReadPage(disk, thr[t].page_id)]]
    /\ lru_' = LRUPin(lru_, thr[t].frame_id)
    /\ page_table_' = PageTablePut(page_table_, thr[t].page_id, thr[t].frame_id)
    /\ returned' = IF thr[t].op = "NewPage" THEN Append(returned, thr[t].page_id)
                   ELSE returned
    /\ thr' = [thr EXCEPT ![t] = ThreadIdle]
    /\ UNCHANGED <<pool_size_, num_instances_, instance_index_, next_page_id_,
                   free_list_, disk>>
    /\ concIdle

ThrWhole(t, r) ==
    /\ thr[t].pc = "idle"
    /\ SetBpi(r.s)
    /\ UNCHANGED <<thr, returned>>
    /\ concIdle

ThrUnpinPage(t, page_id, is_dirty) == ThrWhole(t, UnpinPgImp(Bpi, page_id, is_dirty))

ThrFlushPage(t, page_id) == ThrWhole(t, FlushPgImp(Bpi, page_id))

ThrDeletePage(t, page_id) == ThrWhole(t, DeletePgImp(Bpi, page_id))

\* Callers pass ids that NewPage has handed out.
ConcIds == SeqElems(returned)

NextConc ==
    \E t \in Threads :
        \/ ThrCallNewPage(t)
        \/ \E p \in ConcIds : ThrCallFetchPage(t, p)
        \/ ThrScan(t)
        \/ ThrLookup(t)
        \/ ThrPick(t)
        \/ \E outcome \in {"pop", "nothing", "crash"} : ThrPop(t, outcome)
        \/ ThrEvict(t)
        \/ ThrAllocRead(t)
        \/ ThrAllocBump(t)
        \/ ThrInstall(t)
        \/ \E p \in ConcIds, d \in BOOLEAN : ThrUnpinPage(t, p, d)
        \/ \E p \in ConcIds : ThrFlushPage(t, p)
        \/ \E p \in ConcIds : ThrDeletePage(t, p)

SpecConc == InitConc /\ [][NextConc]_vars

\* The thread has taken a frame for the page it is bringing in.
HoldsFrame(t) == thr[t].pc \in {"pop", "evict", "alloc", "bump", "install"}

\* C15: the calls of two threads on one instance take effect one after the
\* other: two calls in progress never hold the same free or victim frame,
\* no page id is returned by two NewPage calls, and no call leaves the
\* members in a state that ends the process.
C15_Serialized ==
    /\ \A t, u \in Threads :
          (t # u /\ HoldsFrame(t) /\ HoldsFrame(u)) => thr[t].frame_id # thr[u].frame_id
    /\ \A i, j \in 1 .. Len(returned) : returned[i] = returned[j] => i = j
    /\ \A t \in Threads : thr[t].pc # "crashed"

(***************************************************************************)
(* The replacer called directly: any sequence of Unpin, Pin and Victim.    *)
(* lru_ghost.enq records, for each queued frame, the clock value of the    *)
(* Unpin that queued it.                                                   *)
(***************************************************************************)
LRULimit == 2          \* lru_limit_ of the replacer under SpecLRU
MaxFrameId == 2        \* frame ids passed to the replacer are 0..MaxFrameId
MaxClock == 5          \* Unpin calls that queue a frame under SpecLRU

LRUFrameIds == 0 .. MaxFrameId

InitLRU ==
    /\ bpmNone
    /\ bpms_ = <<>>
    /\ last_index = 0
    /\ par_last = NoParCall
    /\ par_returned = <<>>

lruOnly == UNCHANGED <<pool_size_, num_instances_, instance_index_, next_page_id_,
                       pages_, page_table_, free_list_, disk, last, returned,
                       directory_page_id_, stored, ht_last, ht_fault, parVars, thr>>

\* The enqueue times of the frames still queued in q.
EnqOf(enq, q) == [f \in SeqElems(q) |-> enq[f]]

ReplacerVictim ==
    /\ lru_' = LRUVictim(lru_).lru
    /\ lru_ghost' = [lru_ghost EXCEPT !.op = "Victim",
                                      !.frame = LRUVictim(lru_).frame_id,
                                      !.ok = LRUVictim(lru_).ok,
                                      !.enq = EnqOf(lru_ghost.enq, LRUVictim(lru_).lru)]
    /\ lruOnly

ReplacerPin(frame_id) ==
    /\ lru_' = LRUPin(lru_, frame_id)
    /\ lru_ghost' = [lru_ghost EXCEPT !.op = "Pin", !.frame = frame_id, !.ok = TRUE,
                                      !.enq = EnqOf(lru_ghost.enq, LRUPin(lru_, frame_id))]
    /\ lruOnly

ReplacerUnpin(frame_id) ==
    /\ frame_id \in SeqElems(lru_) \/ lru_ghost.clock < MaxClock
    /\ lru_' = LRUUnpin(lru_, frame_id, LRULimit)
    /\ lru_ghost' =
          IF frame_id \in SeqElems(lru_)
          THEN [lru_ghost EXCEPT !.op = "Unpin", !.frame = frame_id, !.ok = TRUE]
          ELSE [lru_ghost EXCEPT
                   !.op = "Unpin", !.frame = frame_id, !.ok = TRUE,
                   !.clock = @ + 1,
                   !.enq = [f \in SeqElems(LRUUnpin(lru_, frame_id, LRULimit)) |->
                               IF f = frame_id THEN lru_ghost.clock ELSE lru_ghost.enq[f]]]
    /\ lruOnly

NextLRU ==
    \/ ReplacerVictim
    \/ \E f \in LRUFrameIds : ReplacerPin(f)
    \/ \E f \in LRUFrameIds : ReplacerUnpin(f)

SpecLRU == InitLRU /\ [][NextLRU]_vars

\* C16: Victim returns and removes the queued frame whose enqueueing Unpin
\* is the oldest and returns none exactly when the queue is empty; Unpin of
\* a queued frame changes nothing; Pin removes the frame if it is queued,
\* keeps the others in their order, and is a no-op otherwise (Pin twice is
\* Pin once).
C16_LRUVictimOrder ==
    [][LET f == lru_ghost'.frame
           op == lru_ghost'.op
           queued == SeqElems(lru_)
           enq == lru_ghost.enq
       IN /\ op = "Victim" =>
                /\ lru_ghost'.ok <=> (lru_ # <<>>)
                /\ lru_ghost'.ok =>
                      /\ f \in queued
                      /\ \A h \in queued : enq[f] <= enq[h]
                      /\ SeqElems(lru_') = queued \ {f}
                /\ (~lru_ghost'.ok) => lru_' = lru_
          /\ (op = "Unpin" /\ f \in queued) => (lru_' = lru_ /\ LRUSize(lru_') = LRUSize(lru_))
          /\ op = "Pin" =>
                /\ SeqElems(lru_') = queued \ {f}
                /\ f \notin queued => lru_' = lru_
                /\ LRUPin(lru_', f) = lru_'
          /\ \A i, j \in 1 .. Len(lru_') :
                i < j => lru_ghost'.enq[lru_'[i]] < lru_ghost'.enq[lru_'[j]]]_vars

\* C16 witness: Victim has just returned the older of two queued frames,
\* at least three Unpin calls having queued a frame before.
C16_Witness ==
    /\ lru_ghost.op = "Victim"
    /\ lru_ghost.ok
    /\ Len(lru_) = 1
    /\ lru_ghost.clock >= 3
    /\ lru_ghost.frame # lru_[1]

(***************************************************************************)
(* Hash table pages.  A frame's bytes are a zeroed page, a directory page  *)
(* or a bucket page; a zeroed page read as a directory has global depth 0  *)
(* and all slots 0, read as a bucket it has no pair.                       *)
(***************************************************************************)
Keys == 0 .. MaxKey
Values == 1 .. MaxValue

DIRECTORY_ARRAY_SIZE == 2 ^ MAX_DEPTH
DirSlots == 0 .. (DIRECTORY_ARRAY_SIZE - 1)
BucketSlots == 0 .. (BUCKET_ARRAY_SIZE - 1)

NoPair == <<>>

ZeroDir == [kind |-> "dir", page_id_ |-> 0, global_depth_ |-> 0,
            local_depths_ |-> [i \in DirSlots |-> 0],
            bucket_page_ids_ |-> [i \in DirSlots |-> 0]]

EmptyBucket == [kind |-> "bucket", slots |-> [i \in BucketSlots |-> NoPair]]

IsDirBytes(d) == d.kind \in {"dir", "zero"}
IsBucketBytes(d) == d.kind \in {"bucket", "zero"}

\* reinterpret_cast<HashTableDirectoryPage *>(page->GetData())
AsDir(d) == IF d.kind = "zero" THEN ZeroDir ELSE d
\* reinterpret_cast<HASH_TABLE_BUCKET_TYPE *>(page->GetData())
AsBucket(d) == IF d.kind = "zero" THEN EmptyBucket ELSE d

\* The bytes of a structure, all-zero structures being a zeroed page.
Bytes(d) == IF d = ZeroDir \/ d = EmptyBucket THEN ZeroData ELSE d

PageData(s, frame_id) == s.pages_[frame_id].data_
WriteFrame(s, frame_id, d) == [s EXCEPT !.pages_[frame_id].data_ = Bytes(d)]

\* HashTableDirectoryPage
GetGlobalDepth(dir) == dir.global_depth_
GetGlobalDepthMask(dir) == 2 ^ dir.global_depth_ - 1
IncrGlobalDepth(dir) == [dir EXCEPT !.global_depth_ = @ + 1]
DirSize(dir) == 2 ^ dir.global_depth_
SetPageId(dir, page_id) == [dir EXCEPT !.page_id_ = page_id]
GetBucketPageId(dir, idx) == dir.bucket_page_ids_[idx]
SetBucketPageId(dir, idx, page_id) == [dir EXCEPT !.bucket_page_ids_[idx] = page_id]
GetLocalDepth(dir, idx) == dir.local_depths_[idx]
SetLocalDepth(dir, idx, depth) == [dir EXCEPT !.local_depths_[idx] = depth]
IncrLocalDepth(dir, idx) == [dir EXCEPT !.local_depths_[idx] = @ + 1]

\* HashTableBucketPage
IsReadable(bucket, i) == bucket.slots[i] # NoPair
KeyAt(bucket, i) == bucket.slots[i][1]
ValueAt(bucket, i) == bucket.slots[i][2]
RemoveAt(bucket, i) == [bucket EXCEPT !.slots[i] = NoPair]
IsFull(bucket) == \A i \in BucketSlots : IsReadable(bucket, i)
IsEmpty(bucket) == \A i \in BucketSlots : ~IsReadable(bucket, i)

BucketGetValue(bucket, key) ==
    { ValueAt(bucket, i) : i \in { j \in BucketSlots : IsReadable(bucket, j) /\ KeyAt(bucket, j) = key } }

\* Rejects the exact pair; else the first free slot; false when none.
BucketInsert(bucket, key, value) ==
    IF \E i \in BucketSlots : bucket.slots[i] = <<key, value>>
    THEN [bucket |-> bucket, ret |-> FALSE]
    ELSE IF IsFull(bucket) THEN [bucket |-> bucket, ret |-> FALSE]
    ELSE LET i == CHOOSE j \in BucketSlots :
                      /\ ~IsReadable(bucket, j)
                      /\ \A m \in BucketSlots : m < j => IsReadable(bucket, m)
         IN [bucket |-> [bucket EXCEPT !.slots[i] = <<key, value>>], ret |-> TRUE]

\* Removes the first pair equal in key and value.
BucketRemove(bucket, key, value) ==
    IF \E i \in BucketSlots : bucket.slots[i] = <<key, value>>
    THEN LET i == CHOOSE j \in BucketSlots :
                      /\ bucket.slots[j] = <<key, value>>
                      /\ \A m \in BucketSlots : m < j => bucket.slots[m] # <<key, value>>
         IN [bucket |-> RemoveAt(bucket, i), ret |-> TRUE]
    ELSE [bucket |-> bucket, ret |-> FALSE]

(***************************************************************************)
(* ExtendibleHashTable                                                     *)
(***************************************************************************)
\* hash_fn_.GetHash: a 64-bit hash of the key, as its two 32-bit halves.
GetHash(key) == [hi |-> key % 3, lo |-> key * 73]

\* Hash: the downcast to 32 bits keeps the low half.
Hash(key) == GetHash(key).lo

\* a | b on naturals
RECURSIVE BitOr(_, _)
BitOr(a, b) ==
    IF a = 0 THEN b
    ELSE IF b = 0 THEN a
    ELSE (IF a % 2 = 1 \/ b % 2 = 1 THEN 1 ELSE 0) + 2 * BitOr(a \div 2, b \div 2)

\* a & b on naturals
RECURSIVE BitAnd(_, _)
BitAnd(a, b) ==
    IF a = 0 \/ b = 0 THEN 0
    ELSE (IF a % 2 = 1 /\ b % 2 = 1 THEN 1 ELSE 0) + 2 * BitAnd(a \div 2, b \div 2)

\* h & ((1 << bits) - 1)
LowBits(h, bits) == BitAnd(h, 2 ^ bits - 1)

KeyToDirectoryIndex(key, dir) == BitAnd(Hash(key), GetGlobalDepthMask(dir))

Fault(s, why) == [s |-> s, ret |-> FALSE, values |-> {}, fault |-> why]

(***************************************************************************)
(* Each method is a chain of stages; a stage receives what the statements   *)
(* before it have computed.  Pointers to pages are frame numbers, and a    *)
(* page is read through its pointer at the moment the source reads it.     *)
(***************************************************************************)

\* The constructor (lines 26-49): directory page, two bucket pages.
ConstructUnpin(n0, n1, n2, s) ==
    [s |-> UnpinPgImp(UnpinPgImp(UnpinPgImp(s, n1.page_id, FALSE).s,
                                 n2.page_id, FALSE).s,
                      n0.page_id, TRUE).s,
     directory_page_id_ |-> n0.page_id]

ConstructBucket1(n0, n1, n2) ==
    ConstructUnpin(n0, n1, n2,
        WriteFrame(n2.s, n0.ret,
            SetLocalDepth(SetBucketPageId(AsDir(PageData(n2.s, n0.ret)), 1, n2.page_id), 1, 1)))

ConstructBucket0(n0, n1) ==
    ConstructBucket1(n0, n1,
        NewPgImp(WriteFrame(n1.s, n0.ret,
            SetLocalDepth(SetBucketPageId(AsDir(PageData(n1.s, n0.ret)), 0, n1.page_id), 0, 1))))

ConstructDir(n0) ==
    ConstructBucket0(n0,
        NewPgImp(WriteFrame(n0.s, n0.ret,
            SetPageId(IncrGlobalDepth(AsDir(PageData(n0.s, n0.ret))), n0.page_id))))

HTConstruct(s) == ConstructDir(NewPgImp(s))

\* The common opening of GetValue, Insert, SplitInsert and Remove:
\* FetchDirectoryPage, KeyToDirectoryIndex / KeyToPageId, FetchBucketPage.
LocFault(why) ==
    [fault |-> why, s |-> <<>>, directory_page |-> NullFrame, bucket_id |-> 0,
     bucket_page_id |-> INVALID_PAGE_ID, bucket_page |-> NullFrame]

LocateDone(directory_page, idx, bucket_page_id, fb) ==
    IF fb.ret = NullFrame THEN LocFault("null page")
    ELSE [fault |-> "none", s |-> fb.s, directory_page |-> directory_page,
          bucket_id |-> idx, bucket_page_id |-> bucket_page_id, bucket_page |-> fb.ret]

\* FetchBucketPage (lines 82-84)
FetchBucketPage(fd, idx, bucket_page_id) ==
    LocateDone(fd.ret, idx, bucket_page_id, FetchPgImp(fd.s, bucket_page_id))

\* KeyToPageId (lines 72-74)
KeyToPageId(fd, idx) ==
    IF idx \notin DirSlots THEN LocFault("directory overflow")
    ELSE FetchBucketPage(fd, idx, GetBucketPageId(AsDir(PageData(fd.s, fd.ret)), idx))

LocateDir(fd, key) ==
    IF fd.ret = NullFrame THEN LocFault("null page")
    ELSE IF ~IsDirBytes(PageData(fd.s, fd.ret)) THEN LocFault("not a directory")
    ELSE KeyToPageId(fd, KeyToDirectoryIndex(key, AsDir(PageData(fd.s, fd.ret))))

\* FetchDirectoryPage (lines 77-79), then the rest.
Locate(s, dpid, key) == LocateDir(FetchPgImp(s, dpid), key)

\* GetValue (lines 90-98)
GetValueEnd(loc, dpid, vals) ==
    [s |-> UnpinPgImp(UnpinPgImp(loc.s, dpid, FALSE).s, loc.bucket_page_id, FALSE).s,
     ret |-> (vals # {}), values |-> vals, fault |-> "none"]

GetValueAt(loc, s, dpid, key) ==
    IF loc.fault # "none" THEN Fault(s, loc.fault)
    ELSE IF ~IsBucketBytes(PageData(loc.s, loc.bucket_page)) THEN Fault(s, "not a bucket")
    ELSE GetValueEnd(loc, dpid, BucketGetValue(AsBucket(PageData(loc.s, loc.bucket_page)), key))

HTGetValue(s, dpid, key) == GetValueAt(Locate(s, dpid, key), s, dpid, key)

\* The rehash loop of SplitInsert (lines 142-152), from slot i on.
\* bucket_page and split_bucket_page are the frames the pointers denote.
RECURSIVE Rehash(_, _, _, _, _, _)
Rehash(s, bucket_page, split_bucket_page, i, new_local_depth, split_bucket_id) ==
    IF i = BUCKET_ARRAY_SIZE THEN [s |-> s, fault |-> "none"] ELSE
    IF ~IsBucketBytes(PageData(s, bucket_page)) THEN [s |-> s, fault |-> "not a bucket"] ELSE
    LET bucket == AsBucket(PageData(s, bucket_page)) IN
    IF ~IsReadable(bucket, i)
    THEN Rehash(s, bucket_page, split_bucket_page, i + 1, new_local_depth, split_bucket_id)
    ELSE
    LET key == KeyAt(bucket, i)
        value == ValueAt(bucket, i)
        insert_id == LowBits(Hash(key), new_local_depth) IN
    IF insert_id # split_bucket_id
    THEN Rehash(s, bucket_page, split_bucket_page, i + 1, new_local_depth, split_bucket_id)
    ELSE
    IF ~IsBucketBytes(PageData(s, split_bucket_page)) THEN [s |-> s, fault |-> "not a bucket"] ELSE
    LET s1 == WriteFrame(s, split_bucket_page,
                         BucketInsert(AsBucket(PageData(s, split_bucket_page)), key, value).bucket) IN
    IF ~IsBucketBytes(PageData(s1, bucket_page)) THEN [s |-> s, fault |-> "not a bucket"] ELSE
    Rehash(WriteFrame(s1, bucket_page, RemoveAt(AsBucket(PageData(s1, bucket_page)), i)),
           bucket_page, split_bucket_page, i + 1, new_local_depth, split_bucket_id)

\* Mutant: the doubling loop copies nothing into the new slots.
Redirect_NoCopy(dir, i, split_bucket_id) == dir

\* The directory doubling loop of SplitInsert (lines 156-162), from slot i.
RECURSIVE Redirect(_, _, _)
Redirect(dir, i, split_bucket_id) ==
    IF i >= DirSize(dir) THEN dir
    ELSE IF i = split_bucket_id THEN Redirect(dir, i + 1, split_bucket_id)
    ELSE Redirect(
             SetLocalDepth(
                 SetBucketPageId(dir, i,
                     GetBucketPageId(dir, LowBits(i, GetGlobalDepth(dir) - 1))),
                 i, GetLocalDepth(dir, LowBits(i, GetGlobalDepth(dir) - 1))),
             i + 1, split_bucket_id)

RECURSIVE HTInsert(_, _, _, _)

\* SplitInsert, lines 165-168: the three unpins, then Insert again.
\* bucket_id and split_bucket_id are passed where page ids are expected.
SplitFinish(loc, b, s, dpid, key, value) ==
    HTInsert(UnpinPgImp(UnpinPgImp(UnpinPgImp(s, dpid, b.incr_global_depth).s,
                                   loc.bucket_id, TRUE).s,
                        b.split_bucket_id, TRUE).s,
             dpid, key, value)

\* SplitInsert, lines 154-163: after the rehash, the doubling loop.
SplitRedirect(loc, b, rh, s, dpid, key, value) ==
    IF rh.fault # "none" THEN Fault(s, rh.fault)
    ELSE IF ~IsDirBytes(PageData(rh.s, loc.directory_page)) THEN Fault(s, "not a directory")
    ELSE IF b.incr_global_depth
            /\ DirSize(AsDir(PageData(rh.s, loc.directory_page))) > DIRECTORY_ARRAY_SIZE
         THEN Fault(s, "directory overflow")
    ELSE SplitFinish(loc, b,
             WriteFrame(rh.s, loc.directory_page,
                 IF b.incr_global_depth
                 THEN Redirect(AsDir(PageData(rh.s, loc.directory_page)),
                               2 ^ (GetGlobalDepth(AsDir(PageData(rh.s, loc.directory_page))) - 1),
                               b.split_bucket_id)
                 ELSE AsDir(PageData(rh.s, loc.directory_page))),
             dpid, key, value)

\* SplitInsert, lines 139-152: wire the new page into the split image's
\* slot, then rehash the old bucket.
SplitWire(loc, b, np, s, dpid, key, value) ==
    IF np.ret = NullFrame THEN Fault(s, "null page")
    ELSE IF b.split_bucket_id \notin DirSlots THEN Fault(s, "directory overflow")
    ELSE IF ~IsDirBytes(PageData(np.s, loc.directory_page)) THEN Fault(s, "not a directory")
    ELSE SplitRedirect(loc, b,
             Rehash(WriteFrame(np.s, loc.directory_page,
                        SetLocalDepth(
                            SetBucketPageId(AsDir(PageData(np.s, loc.directory_page)),
                                            b.split_bucket_id, np.page_id),
                            b.split_bucket_id, b.new_local_depth)),
                    loc.bucket_page, np.ret, 0, b.new_local_depth, b.split_bucket_id),
             s, dpid, key, value)

\* SplitInsert, lines 133-135: the split image and the new local depth.
SplitImage(dir, incr_global_depth, bucket_id) ==
    [dir |-> IncrLocalDepth(dir, bucket_id),
     incr_global_depth |-> incr_global_depth,
     split_bucket_id |-> BitOr(2 ^ GetLocalDepth(dir, bucket_id), bucket_id),
     new_local_depth |-> GetLocalDepth(IncrLocalDepth(dir, bucket_id), bucket_id)]

\* SplitInsert, lines 128-132: double the directory's depth when the
\* bucket's local depth equals the global depth.
SplitDepth(dir, bucket_id) ==
    IF GetLocalDepth(dir, bucket_id) = GetGlobalDepth(dir)
    THEN SplitImage(IncrGlobalDepth(dir), TRUE, bucket_id)
    ELSE SplitImage(dir, FALSE, bucket_id)

\* SplitInsert, lines 136-138: NewPage for the split bucket.
SplitAlloc(loc, b, s, dpid, key, value) ==
    SplitWire(loc, b, NewPgImp(WriteFrame(loc.s, loc.directory_page, b.dir)),
              s, dpid, key, value)

SplitAt(loc, s, dpid, key, value) ==
    IF loc.fault # "none" THEN Fault(s, loc.fault)
    ELSE IF ~IsDirBytes(PageData(loc.s, loc.directory_page)) THEN Fault(s, "not a directory")
    ELSE SplitAlloc(loc, SplitDepth(AsDir(PageData(loc.s, loc.directory_page)), loc.bucket_id),
                    s, dpid, key, value)

\* SplitInsert (lines 123-170)
SplitInsert(s, dpid, key, value) == SplitAt(Locate(s, dpid, key), s, dpid, key, value)

\* Insert, lines 115-118: the bucket has room.
InsertEnd(loc, dpid, bi) ==
    [s |-> UnpinPgImp(UnpinPgImp(WriteFrame(loc.s, loc.bucket_page, bi.bucket),
                                 dpid, FALSE).s,
                      loc.bucket_page_id, bi.ret).s,
     ret |-> bi.ret, values |-> {}, fault |-> "none"]

InsertAt(loc, s, dpid, key, value) ==
    IF loc.fault # "none" THEN Fault(s, loc.fault)
    ELSE IF ~IsBucketBytes(PageData(loc.s, loc.bucket_page)) THEN Fault(s, "not a bucket")
    ELSE IF IsFull(AsBucket(PageData(loc.s, loc.bucket_page)))
         THEN SplitInsert(UnpinPgImp(UnpinPgImp(loc.s, dpid, FALSE).s,
                                     loc.bucket_page_id, FALSE).s,
                          dpid, key, value)
         ELSE InsertEnd(loc, dpid,
                        BucketInsert(AsBucket(PageData(loc.s, loc.bucket_page)), key, value))

\* Insert (lines 104-120)
HTInsert(s, dpid, key, value) == InsertAt(Locate(s, dpid, key), s, dpid, key, value)

\* Merge (lines 193-194): a no-op.
Merge(s, key, value) == s

\* Remove, lines 181-187
RemoveEnd(loc, dpid, key, value, br) ==
    [s |-> IF IsEmpty(br.bucket)
           THEN Merge(UnpinPgImp(UnpinPgImp(WriteFrame(loc.s, loc.bucket_page, br.bucket),
                                            dpid, FALSE).s,
                                 loc.bucket_page_id, br.ret).s, key, value)
           ELSE UnpinPgImp(UnpinPgImp(WriteFrame(loc.s, loc.bucket_page, br.bucket),
                                      dpid, FALSE).s,
                           loc.bucket_page_id, br.ret).s,
     ret |-> br.ret, values |-> {}, fault |-> "none"]

RemoveAtLoc(loc, s, dpid, key, value) ==
    IF loc.fault # "none" THEN Fault(s, loc.fault)
    ELSE IF ~IsBucketBytes(PageData(loc.s, loc.bucket_page)) THEN Fault(s, "not a bucket")
    ELSE RemoveEnd(loc, dpid, key, value,
                   BucketRemove(AsBucket(PageData(loc.s, loc.bucket_page)), key, value))

\* Remove (lines 176-188)
HTRemove(s, dpid, key, value) == RemoveAtLoc(Locate(s, dpid, key), s, dpid, key, value)

\* GetGlobalDepth (lines 199-207) and VerifyIntegrity (lines 212-219):
\* FetchDirectoryPage, a read of the directory, and the asserted
\* UnpinPage(directory_page_id_, false).  ret is what UnpinPage returned;
\* the assertion aborts the process when it is false.
IntrospectUnpin(u, depth) ==
    [s |-> u.s, ret |-> u.ret, values |-> {}, depth |-> depth,
     fault |-> IF u.ret THEN "none" ELSE "assertion failed"]

IntrospectDir(fd, dpid) ==
    IF fd.ret = NullFrame THEN Fault(fd.s, "null page") @@ [depth |-> 0]
    ELSE IF ~IsDirBytes(PageData(fd.s, fd.ret)) THEN Fault(fd.s, "not a directory") @@ [depth |-> 0]
    ELSE IntrospectUnpin(UnpinPgImp(fd.s, dpid, FALSE),
                         GetGlobalDepth(AsDir(PageData(fd.s, fd.ret))))

HTGetGlobalDepth(s, dpid) == IntrospectDir(FetchPgImp(s, dpid), dpid)

HTVerifyIntegrity(s, dpid) == IntrospectDir(FetchPgImp(s, dpid), dpid)


(***************************************************************************)
(* The hash table's public calls, as actions.  After a fault the process   *)
(* is gone and no further call is made.                                    *)
(***************************************************************************)
InitHT ==
    LET c == HTConstruct(NewInstance(HTPoolSize, 1, 0)) IN
    /\ pool_size_ = c.s.pool_size_
    /\ num_instances_ = c.s.num_instances_
    /\ instance_index_ = c.s.instance_index_
    /\ next_page_id_ = c.s.next_page_id_
    /\ pages_ = c.s.pages_
    /\ page_table_ = c.s.page_table_
    /\ free_list_ = c.s.free_list_
    /\ lru_ = c.s.lru_
    /\ disk = c.s.disk
    /\ last = NoCall
    /\ returned = <<>>
    /\ directory_page_id_ = c.directory_page_id_
    /\ stored = {}
    /\ ht_last = NoHTCall
    /\ ht_fault = "none"
    /\ parNone

HTCall(name, key, value, r, newStored) ==
    /\ r.s.next_page_id_ <= MaxHTPages
    /\ SetBpi(r.s)
    /\ ht_fault' = r.fault
    /\ ht_last' = [op |-> name, ret |-> r.ret]
    /\ stored' = IF r.fault = "none" THEN newStored ELSE stored
    /\ UNCHANGED <<last, returned, directory_page_id_>>
    /\ UNCHANGED parVars
    /\ thr' = thr
    /\ lru_ghost' = lru_ghost

Insert(key, value) ==
    /\ ht_fault = "none"
    /\ LET r == HTInsert(Bpi, directory_page_id_, key, value)
       IN HTCall("Insert", key, value, r,
                 IF r.ret THEN stored \cup {<<key, value>>} ELSE stored)

Remove(key, value) ==
    /\ ht_fault = "none"
    /\ LET r == HTRemove(Bpi, directory_page_id_, key, value)
       IN HTCall("Remove", key, value, r,
                 IF r.ret THEN stored \ {<<key, value>>} ELSE stored)

GetValue(key) ==
    /\ ht_fault = "none"
    /\ LET r == HTGetValue(Bpi, directory_page_id_, key)
       IN HTCall("GetValue", key, 0, r, stored)

GetGlobalDepthCall ==
    /\ ht_fault = "none"
    /\ LET r == HTGetGlobalDepth(Bpi, directory_page_id_)
       IN HTCall("GetGlobalDepth", 0, 0, r, stored)

VerifyIntegrityCall ==
    /\ ht_fault = "none"
    /\ LET r == HTVerifyIntegrity(Bpi, directory_page_id_)
       IN HTCall("VerifyIntegrity", 0, 0, r, stored)

NextHT ==
    \/ \E k \in Keys, v \in Values : Insert(k, v)
    \/ \E k \in Keys, v \in Values : Remove(k, v)
    \/ \E k \in Keys : GetValue(k)
    \/ GetGlobalDepthCall
    \/ VerifyIntegrityCall

SpecHT == InitHT /\ [][NextHT]_vars

(***************************************************************************)
(* Properties of the hash table (checked under SpecHT).                    *)
(***************************************************************************)
\* What GetValue(key) would return in the current state.
Lookup(key) == HTGetValue(Bpi, directory_page_id_, key).values

\* C3: every pair whose Insert returned true and that was not removed is
\* returned by GetValue of its key.
C3_InsertGetLaw ==
    ht_fault = "none" => \A kv \in stored : kv[2] \in Lookup(kv[1])

\* C10: Remove of a stored pair returns true; after a true Remove the pair
\* is no longer returned and every other stored pair still is; Remove of a
\* pair that is not stored returns false and changes nothing.
C10_RemoveGetLaw ==
    ht_fault = "none" =>
        \A k \in Keys, v \in Values :
            LET r == HTRemove(Bpi, directory_page_id_, k, v)
                after(key) == HTGetValue(r.s, directory_page_id_, key).values
            IN /\ r.fault = "none"
               /\ (<<k, v>> \in stored) => r.ret
               /\ r.ret =>
                     /\ v \notin after(k)
                     /\ \A o \in stored \ {<<k, v>>} : o[2] \in after(o[1])
               /\ (<<k, v>> \notin stored) =>
                     (~r.ret /\ \A key \in Keys : after(key) = Lookup(key))

\* The bucket page GetValue(key) would read in the current state.
BucketOf(key) ==
    AsBucket(PageData(Locate(Bpi, directory_page_id_, key).s,
                      Locate(Bpi, directory_page_id_, key).bucket_page))

\* C11: a second Insert(k,v) of a stored pair returns false and leaves what
\* GetValue returns for every key unchanged, also when the bucket holding
\* the pair is full; a pair with the same key and another value is accepted
\* when its bucket has room.
C11_InsertIdempotent ==
    ht_fault = "none" =>
        \A kv \in stored :
            LET r == HTInsert(Bpi, directory_page_id_, kv[1], kv[2])
            IN /\ r.fault = "none"
               /\ ~r.ret
               /\ \A key \in Keys :
                      HTGetValue(r.s, directory_page_id_, key).values = Lookup(key)
               /\ \A v \in Values :
                      (<<kv[1], v>> \notin stored /\ ~IsFull(BucketOf(kv[1])))
                          => HTInsert(Bpi, directory_page_id_, kv[1], v).ret

\* The directory page as the hash table reads it in the current state.
DirNow ==
    AsDir(PageData(FetchPgImp(Bpi, directory_page_id_).s,
                   FetchPgImp(Bpi, directory_page_id_).ret))

\* The bucket of key is full, the directory is at MAX_DEPTH and every pair
\* of the bucket hashes to the directory slot of key.
Saturated(key) ==
    /\ GetGlobalDepth(DirNow) = MAX_DEPTH
    /\ IsFull(BucketOf(key))
    /\ \A i \in BucketSlots :
          KeyToDirectoryIndex(KeyAt(BucketOf(key), i), DirNow) = KeyToDirectoryIndex(key, DirNow)

\* C12: every Insert returns (its chain of SplitInsert retries ends without
\* running past the directory), an Insert into a saturated bucket returns
\* false and changes nothing, and global_depth never exceeds MAX_DEPTH.
C12_InsertTerminates ==
    ht_fault = "none" =>
        /\ GetGlobalDepth(DirNow) <= MAX_DEPTH
        /\ \A k \in Keys, v \in Values :
              LET r == HTInsert(Bpi, directory_page_id_, k, v)
              IN /\ r.fault # "directory overflow"
                 /\ Saturated(k) => (~r.ret /\ r.s = Bpi)

\* The live slots of a directory.
LiveSlots(dir) == 0 .. (DirSize(dir) - 1)

\* C17: after every completed Insert, two live directory slots that agree
\* on the low local_depth[i] bits point to the same bucket page and carry
\* the same local depth (so after a split below the global depth every
\* slot of the split image points to the new bucket with depth ld+1).
C17_DirectoryCoherence ==
    ht_fault = "none" =>
        \A i, j \in LiveSlots(DirNow) :
            LowBits(i, GetLocalDepth(DirNow, i)) = LowBits(j, GetLocalDepth(DirNow, i))
                => /\ GetBucketPageId(DirNow, i) = GetBucketPageId(DirNow, j)
                   /\ GetLocalDepth(DirNow, i) = GetLocalDepth(DirNow, j)

\* The constructor's directory: global depth 1, slots 0 and 1 wired to two
\* distinct bucket pages with local depth 1.
ConstructedDir(dir) ==
    /\ GetGlobalDepth(dir) = 1
    /\ GetBucketPageId(dir, 0) # GetBucketPageId(dir, 1)
    /\ GetLocalDepth(dir, 0) = 1
    /\ GetLocalDepth(dir, 1) = 1

\* The slots of the upper half of dir that differ, in bucket page id or
\* local depth, from their image in the lower half.
OwnUpperSlots(dir) ==
    { i \in (DirSize(dir) \div 2) .. (DirSize(dir) - 1) :
        \/ GetBucketPageId(dir, i) # GetBucketPageId(dir, i - DirSize(dir) \div 2)
        \/ GetLocalDepth(dir, i) # GetLocalDepth(dir, i - DirSize(dir) \div 2) }

C19_PinBalance ==
    ht_fault = "none" => \A f \in FrameSet : pages_[f].pin_count_ = 0

\* The operation just completed changed the bytes of the page in frame f:
\* the page was there before with other bytes, or it came into the frame
\* during the operation and differs from what the disk holds for it.
BytesChanged(f) ==
    /\ pages_'[f].page_id_ # INVALID_PAGE_ID
    /\ IF pages_[f].page_id_ = pages_'[f].page_id_
       THEN pages_[f].data_ # pages_'[f].data_
       ELSE pages_'[f].data_ # DiskReadPage(disk', pages_'[f].page_id_)

\* C20: when a hash table operation has changed the bytes of a directory
\* or bucket page, the page's frame is dirty after the operation; a page
\* whose bytes it left alone is not made dirty by it.
C20_HonestDirtyFlag ==
    [][ht_fault' = "none" =>
          \A f \in FrameSet :
              /\ BytesChanged(f) => pages_'[f].is_dirty_
              /\ (pages_[f].page_id_ = pages_'[f].page_id_
                     /\ pages_[f].data_ = pages_'[f].data_
                     /\ pages_'[f].is_dirty_)
                    => pages_[f].is_dirty_]_vars

\* C21: in every state reached by the constructor and any sequence of
\* Insert, Remove and GetValue, the UnpinPage(directory_page_id, false) that
\* GetGlobalDepth and VerifyIntegrity assert returns true: the directory
\* page is resident with pin_count > 0 when it is unpinned.
C21_IntrospectionAsserts ==
    ht_fault = "none" =>
        /\ HTGetGlobalDepth(Bpi, directory_page_id_).fault # "assertion failed"
        /\ HTVerifyIntegrity(Bpi, directory_page_id_).fault # "assertion failed"

(***************************************************************************)
(* The replacer under the buffer pool instance (checked under SpecBPM).    *)
(***************************************************************************)
\* No frame id occurs twice in q.
NoDuplicates(q) == \A i, j \in 1 .. Len(q) : q[i] = q[j] => i = j

\* The branch of LRUReplacer::Unpin at lines 43-44: frame_id is not queued
\* and the queue is at capacity, so the front is popped.
AtCapacityBranch(q, frame_id, lru_limit_) ==
    frame_id \notin SeqElems(q) /\ Len(q) = lru_limit_

\* UnpinPage(page_id) in state s gets as far as replacer_->Unpin (the pin
\* count goes from 1 to 0) and replacer_->Unpin takes the capacity branch.
UnpinDropsFront(s, page_id) ==
    /\ page_id \in DOMAIN s.page_table_
    /\ s.pages_[s.page_table_[page_id]].pin_count_ = 1
    /\ AtCapacityBranch(s.lru_, s.page_table_[page_id], s.pool_size_)

\* C22: under any sequence of buffer pool instance operations the replacer
\* queue holds no frame id twice and never more than pool_size frames, no
\* UnpinPage reaches the branch of Unpin that pops the front at capacity,
\* and a frame leaves the queue only as the frame a NewPage or FetchPage
\* takes (returned by Victim or removed by Pin).
C22_CapacityGuardIdle ==
    /\ [](/\ NoDuplicates(lru_)
          /\ Len(lru_) <= pool_size_
          /\ \A p \in AllocatedIds : ~UnpinDropsFront(Bpi, p))
    /\ [][\A f \in SeqElems(lru_) \ SeqElems(lru_') :
              last'.op \in {"NewPage", "FetchPage"} /\ last'.frame = f]_vars

\* C22 witness: an UnpinPage has just queued the last frame of the pool, so
\* the queue is at capacity.
C22_Witness ==
    /\ last.op = "UnpinPage"
    /\ last.ret
    /\ Len(lru_) = pool_size_
====
